---- MODULE Spec2Model ----
(***************************************************************************)
(* The in-memory mint of crates/cashu-sdk/src/mint.rs: keyset registry,    *)
(* spent-secret ledger, and the mint / swap / melt request handlers.       *)
(***************************************************************************)
EXTENDS Integers, Sequences, FiniteSets, TLC

\* ------------------------------------------------------------------ bounds
\* Longest input (proof) list and output (blinded message) list of a request.
MaxInputs == 2
MaxOutputs == 2
\* Largest total_spent a caller passes to process_melt_request.
MaxTotalSpent == 3
\* Width of an Amount in bits (u64 in the program, narrowed for checking).
AmountBits == 4

\* ---------------------------------------------------------------- universe
Secrets == {"s1", "s2"}
Amounts == {1, 2}
QuoteIds == {"q1", "q2", "q3"}

\* Identifier derived from the keys of a generated keyset: a function of
\* what the keys are derived from.
GenId(unit, derivation_path, max_order) == <<unit, derivation_path, max_order>>

\* nut02::mint::KeySet::generate: one keypair per amount 2^i, i < max_order.
KeySetGenerate(unit, derivation_path, max_order) ==
    [id |-> GenId(unit, derivation_path, max_order),
     unit |-> unit,
     keys |-> [a \in {2 ^ i : i \in 0 .. (max_order - 1)} |->
                  [secret_key |-> <<unit, derivation_path, a>>]]]

\* MintKeySetInfo values handed to Mint::new.
MintKeySetInfo(id, unit, active, derivation_path, max_order) ==
    [id |-> id, unit |-> unit, active |-> active,
     derivation_path |-> derivation_path, max_order |-> max_order]

IdA == GenId("sat", "p0", 2)
IdB == GenId("sat", "p1", 1)
InfoA == MintKeySetInfo(IdA, "sat", TRUE, "p0", 2)
InfoB == MintKeySetInfo(IdB, "sat", FALSE, "p1", 1)
KeysetIds == {IdA, IdB}
\* An info that states an id other than the one its keyset is generated with.
InfoD == MintKeySetInfo(GenId("sat", "p9", 1), "sat", TRUE, "p1", 1)
InfoUniverse == {InfoA, InfoB, InfoD}

\* The keyset-info sets and spent sets a mint is constructed from.
InitKeysetInfos == {{InfoA, InfoB}, {InfoA}}
InitSpent == {{}, {"s1"}}
Quote(id, amount, fee_reserve) == [id |-> id, amount |-> amount, fee_reserve |-> fee_reserve]
InitQuotes == <<Quote("q1", 1, 1), Quote("q3", 2, 1)>>

\* ------------------------------------------------------------------- DHKE
\* hash_to_curve: the curve point of a secret.
HashToCurve(secret) == <<"Y", secret>>
\* k * P for a secret key k and a point P.
ScalarMul(k, point) == <<k, point>>
\* sign_message(k, B_) = k * B_
SignMessage(k, b) == ScalarMul(k, b)
\* verify_message(k, C, secret): C = k * hash_to_curve(secret)
VerifyMessage(k, c, secret) == c = ScalarMul(k, HashToCurve(secret))

\* The secret key a generated keyset binds to an amount.
SecretKeyOf(id, amount) == <<id[1], id[2], amount>>
\* An unblinded signature made without any of the mint's keys.
ForgedC == ScalarMul(<<"none", "none", 0>>, <<"Y", "none">>)

Proof(amount, id, secret, c) == [amount |-> amount, id |-> id, secret |-> secret, c |-> c]
BlindedMessage(amount, b, keyset_id) == [amount |-> amount, b |-> b, keyset_id |-> keyset_id]
BlindedSignature(amount, c, id) == [amount |-> amount, c |-> c, id |-> id]

\* Proofs a wallet can submit: properly signed for their amount and keyset, or forged.
Proofs ==
    {Proof(a, i, s, IF g THEN ScalarMul(SecretKeyOf(i, a), HashToCurve(s)) ELSE ForgedC) :
        a \in Amounts, i \in KeysetIds, s \in Secrets, g \in BOOLEAN}
\* Blinded messages a wallet builds: for a keyset and one of the denominations
\* that keyset publishes.
Denominations(id) == {2 ^ n : n \in 0 .. (id[3] - 1)}
BlindedMessages ==
    {m \in {BlindedMessage(a, <<"B", a>>, i) : a \in Amounts, i \in KeysetIds} :
        m.amount \in Denominations(m.keyset_id)}

SeqsUpTo(S, n) == UNION {[1 .. k -> S] : k \in 0 .. n}
InputLists == SeqsUpTo(Proofs, MaxInputs)
OutputLists == SeqsUpTo(BlindedMessages, MaxOutputs)

\* ------------------------------------------------------------------ state
VARIABLES
    keysets,          \* Mint.keysets: Id -> generated KeySet
    keysets_info,     \* Mint.keysets_info: Id -> MintKeySetInfo
    spent_secrets,    \* Mint.spent_secrets
    pending_secrets,  \* Mint.pending_secrets
    quotes,           \* Mint.quotes: quote id -> Quote
    op,               \* the handler that has just run, "idle" between requests
    req,              \* its request
    res,              \* its outcome: Ok, Err(e) or a panic
    before,           \* the ledger as it was when that handler was called
    first_res,        \* for a request issued a second time: the outcome of the first call
    track,            \* whether times_spent is kept
    times_spent       \* history: how often a secret was an input of a successful
                      \* swap or melt (counted up to 2)

ledger == <<spent_secrets, pending_secrets, quotes>>
registry == <<keysets, keysets_info>>
vars == <<keysets, keysets_info, spent_secrets, pending_secrets, quotes,
          op, req, res, before, first_res, track, times_spent>>

\* -------------------------------------------------------------- Mint::new
\* The mints Mint::new can build from a set of infos: a duplicate active unit
\* panics (todo!()); keysets is keyed by the generated id, keysets_info by the
\* id the info states, the last insert under an id winning, in HashSet order.
DuplicateActiveUnit(infos) ==
    \E x \in infos, y \in infos : x # y /\ x.active /\ y.active /\ x.unit = y.unit

NewMints(infos, spent, quote_list) ==
    IF DuplicateActiveUnit(infos)
    THEN {[panic |-> TRUE, keysets |-> << >>, keysets_info |-> << >>,
           spent_secrets |-> {}, pending_secrets |-> {}, quotes |-> << >>]}
    ELSE LET gen(i) == KeySetGenerate(i.unit, i.derivation_path, i.max_order)
             ks == [id \in {gen(i).id : i \in infos} |->
                        CHOOSE k \in {gen(i) : i \in infos} : k.id = id]
             info_ids == {i.id : i \in infos}
             info_maps == {f \in [info_ids -> infos] : \A id \in info_ids : f[id].id = id}
             qs == [id \in {quote_list[n].id : n \in 1 .. Len(quote_list)} |->
                        LET last == CHOOSE n \in 1 .. Len(quote_list) :
                                       /\ quote_list[n].id = id
                                       /\ \A m \in (n + 1) .. Len(quote_list) : quote_list[m].id # id
                        IN quote_list[last]]
         IN {[panic |-> FALSE, keysets |-> ks, keysets_info |-> f,
              spent_secrets |-> spent, pending_secrets |-> {}, quotes |-> qs] :
                 f \in info_maps}

\* ------------------------------------------------------ requests, results
NoQuote == "none"
Request(quote, inputs, outputs, has_outputs, total_spent) ==
    [quote |-> quote, inputs |-> inputs, outputs |-> outputs,
     has_outputs |-> has_outputs, total_spent |-> total_spent, keysets_info |-> {}]
Result(kind, err, signatures, has_change) ==
    [kind |-> kind, err |-> err, signatures |-> signatures, has_change |-> has_change,
     spendable |-> << >>, pending |-> << >>]
Ok(signatures, has_change) == Result("ok", "none", signatures, has_change)
Err(e) == Result("err", e, << >>, FALSE)
Panic(what) == Result("panic", what, << >>, FALSE)

NoRequest == Request(NoQuote, << >>, << >>, FALSE, 0)
NoResult == Result("none", "none", << >>, FALSE)
\* The arguments of Mint::new.
NewRequest(infos) == [NoRequest EXCEPT !.keysets_info = infos]
\* CheckSpendableResponse { spendable, pending }
CheckSpendableResponse(spendable, pending) ==
    [Ok(<< >>, FALSE) EXCEPT !.spendable = spendable, !.pending = pending]

RECURSIVE SumAmounts(_)
\* SwapRequest::input_amount / output_amount, MeltBolt11Request::proofs_amount
SumAmounts(list) ==
    IF list = << >> THEN 0 ELSE Head(list).amount + SumAmounts(Tail(list))

SecretsOf(inputs) == {inputs[n].secret : n \in 1 .. Len(inputs)}

\* The history after a handler returned `result` for `inputs`.
Count(result, inputs) ==
    IF track /\ result.kind = "ok"
    THEN [s \in Secrets |-> IF s \in SecretsOf(inputs) /\ times_spent[s] < 2
                            THEN times_spent[s] + 1 ELSE times_spent[s]]
    ELSE times_spent

\* What every handler call records.
Called(handler, request, result, inputs) ==
    /\ op' = handler
    /\ req' = request
    /\ res' = result
    /\ before' = ledger
    /\ times_spent' = Count(result, inputs)
    /\ UNCHANGED <<keysets, keysets_info, pending_secrets, quotes, track>>

\* ------------------------------------------------------------ blind_sign
\* Mutant: blind_sign without its look at the keyset's active flag.
BlindSignIgnoringActive(blinded_message) ==
    IF blinded_message.keyset_id \notin DOMAIN keysets THEN Err("UnknownKeySet")
    ELSE IF blinded_message.keyset_id \notin DOMAIN keysets_info THEN Err("UnknownKeySet")
    ELSE LET keyset == keysets[blinded_message.keyset_id] IN
         IF blinded_message.amount \notin DOMAIN keyset.keys THEN Err("AmountKey")
         ELSE Ok(<<BlindedSignature(
                      blinded_message.amount,
                      SignMessage(keyset.keys[blinded_message.amount].secret_key,
                                  blinded_message.b),
                      keyset.id)>>, FALSE)

BlindSign(blinded_message) ==
    IF blinded_message.keyset_id \notin DOMAIN keysets THEN Err("UnknownKeySet")
    ELSE IF blinded_message.keyset_id \notin DOMAIN keysets_info THEN Err("UnknownKeySet")
    ELSE IF ~keysets_info[blinded_message.keyset_id].active THEN Err("InactiveKeyset")
    ELSE LET keyset == keysets[blinded_message.keyset_id] IN
         IF blinded_message.amount \notin DOMAIN keyset.keys THEN Err("AmountKey")
         ELSE Ok(<<BlindedSignature(
                      blinded_message.amount,
                      SignMessage(keyset.keys[blinded_message.amount].secret_key,
                                  blinded_message.b),
                      keyset.id)>>, FALSE)

RECURSIVE BlindSignAllSkippingFailures(_)
\* Mutant: the signing loop passing over the messages that fail.
BlindSignAllSkippingFailures(outputs) ==
    IF outputs = << >> THEN Ok(<< >>, FALSE)
    ELSE LET first == BlindSign(Head(outputs))
             rest == BlindSignAllSkippingFailures(Tail(outputs))
         IN Ok((IF first.kind = "ok" THEN first.signatures ELSE << >>) \o rest.signatures,
               FALSE)

RECURSIVE BlindSignAll(_)
\* Signs the messages in order; the first failure ends the loop with its error.
BlindSignAll(outputs) ==
    IF outputs = << >> THEN Ok(<< >>, FALSE)
    ELSE LET first == BlindSign(Head(outputs)) IN
         IF first.kind # "ok" THEN first
         ELSE LET rest == BlindSignAll(Tail(outputs)) IN
              IF rest.kind # "ok" THEN rest
              ELSE Ok(first.signatures \o rest.signatures, FALSE)

\* ---------------------------------------------------------- verify_proof
\* Mutant: verify_proof without its look-up in spent_secrets.
VerifyProofIgnoringSpent(proof) ==
    IF proof.id \notin DOMAIN keysets THEN Err("UnknownKeySet")
    ELSE IF proof.amount \notin DOMAIN keysets[proof.id].keys THEN Err("AmountKey")
    ELSE IF ~VerifyMessage(keysets[proof.id].keys[proof.amount].secret_key,
                           proof.c, proof.secret)
         THEN Err("CryptoError")
    ELSE Ok(<< >>, FALSE)

\* Mutant: verify_proof looking the secret up after its other checks.
VerifyProofSpentLast(proof) ==
    IF proof.id \notin DOMAIN keysets THEN Err("UnknownKeySet")
    ELSE IF proof.amount \notin DOMAIN keysets[proof.id].keys THEN Err("AmountKey")
    ELSE IF ~VerifyMessage(keysets[proof.id].keys[proof.amount].secret_key,
                           proof.c, proof.secret)
         THEN Err("CryptoError")
    ELSE IF proof.secret \in spent_secrets THEN Err("TokenSpent")
    ELSE Ok(<< >>, FALSE)

VerifyProof(proof) ==
    IF proof.secret \in spent_secrets THEN Err("TokenSpent")
    ELSE IF proof.id \notin DOMAIN keysets THEN Err("UnknownKeySet")
    ELSE IF proof.amount \notin DOMAIN keysets[proof.id].keys THEN Err("AmountKey")
    ELSE IF ~VerifyMessage(keysets[proof.id].keys[proof.amount].secret_key,
                           proof.c, proof.secret)
         THEN Err("CryptoError")
    ELSE Ok(<< >>, FALSE)

RECURSIVE VerifyProofs(_)
\* The `for proof in inputs { self.verify_proof(proof)? }` loop.
VerifyProofs(inputs) ==
    IF inputs = << >> THEN Ok(<< >>, FALSE)
    ELSE LET first == VerifyProof(Head(inputs)) IN
         IF first.kind # "ok" THEN first ELSE VerifyProofs(Tail(inputs))

\* -------------------------------------------------- process_split_request
\* Mutant: the input secrets are inserted before the request is validated.
SplitOutcomeSpendFirst(inputs, outputs) ==
    LET spent == spent_secrets \cup SecretsOf(inputs) IN
    IF SumAmounts(inputs) # SumAmounts(outputs)
    THEN [res |-> Err("Amount"), spent |-> spent]
    ELSE IF Cardinality(SecretsOf(inputs)) # Len(inputs)
    THEN [res |-> Err("DuplicateProofs"), spent |-> spent]
    ELSE IF VerifyProofs(inputs).kind # "ok"
    THEN [res |-> VerifyProofs(inputs), spent |-> spent]
    ELSE LET promises == BlindSignAll(outputs)
         IN IF promises.kind # "ok"
            THEN [res |-> Panic("unwrap"), spent |-> spent]
            ELSE [res |-> Ok(promises.signatures, FALSE), spent |-> spent]

\* Mutant: the comparison of the input and output totals is left out.
SplitOutcomeNoAmountCheck(inputs, outputs) ==
    IF Cardinality(SecretsOf(inputs)) # Len(inputs)
    THEN [res |-> Err("DuplicateProofs"), spent |-> spent_secrets]
    ELSE IF VerifyProofs(inputs).kind # "ok"
    THEN [res |-> VerifyProofs(inputs), spent |-> spent_secrets]
    ELSE LET promises == BlindSignAll(outputs)
             spent == spent_secrets \cup SecretsOf(inputs)
         IN IF promises.kind # "ok"
            THEN [res |-> Panic("unwrap"), spent |-> spent]
            ELSE [res |-> Ok(promises.signatures, FALSE), spent |-> spent]

\* Mutant: the input secrets never reach spent_secrets.
SplitOutcomeNoSpend(inputs, outputs) ==
    IF SumAmounts(inputs) # SumAmounts(outputs)
    THEN [res |-> Err("Amount"), spent |-> spent_secrets]
    ELSE IF Cardinality(SecretsOf(inputs)) # Len(inputs)
    THEN [res |-> Err("DuplicateProofs"), spent |-> spent_secrets]
    ELSE IF VerifyProofs(inputs).kind # "ok"
    THEN [res |-> VerifyProofs(inputs), spent |-> spent_secrets]
    ELSE LET promises == BlindSignAll(outputs)
         IN IF promises.kind # "ok"
            THEN [res |-> Panic("unwrap"), spent |-> spent_secrets]
            ELSE [res |-> Ok(promises.signatures, FALSE), spent |-> spent_secrets]

\* Mutant: process_split_request without its check for repeated secrets.
SplitOutcomeNoDuplicateCheck(inputs, outputs) ==
    IF SumAmounts(inputs) # SumAmounts(outputs)
    THEN [res |-> Err("Amount"), spent |-> spent_secrets]
    ELSE IF VerifyProofs(inputs).kind # "ok"
    THEN [res |-> VerifyProofs(inputs), spent |-> spent_secrets]
    ELSE LET promises == BlindSignAll(outputs)
             spent == spent_secrets \cup SecretsOf(inputs)
         IN IF promises.kind # "ok"
            THEN [res |-> Panic("unwrap"), spent |-> spent]
            ELSE [res |-> Ok(promises.signatures, FALSE), spent |-> spent]

\* The outcome and the spent set process_split_request leaves behind.
SplitOutcome(inputs, outputs) ==
    IF SumAmounts(inputs) # SumAmounts(outputs)
    THEN [res |-> Err("Amount"), spent |-> spent_secrets]
    ELSE IF Cardinality(SecretsOf(inputs)) # Len(inputs)
    THEN [res |-> Err("DuplicateProofs"), spent |-> spent_secrets]
    ELSE IF VerifyProofs(inputs).kind # "ok"
    THEN [res |-> VerifyProofs(inputs), spent |-> spent_secrets]
    ELSE LET promises == BlindSignAll(outputs)
             spent == spent_secrets \cup SecretsOf(inputs)
         IN IF promises.kind # "ok"
            THEN [res |-> Panic("unwrap"), spent |-> spent]
            ELSE [res |-> Ok(promises.signatures, FALSE), spent |-> spent]

SplitStep(inputs, outputs) ==
    LET out == SplitOutcome(inputs, outputs) IN
    /\ Called("swap", Request(NoQuote, inputs, outputs, TRUE, 0), out.res, inputs)
    /\ spent_secrets' = out.spent

ProcessSplitRequest ==
    /\ op = "idle"
    /\ first_res' = NoResult
    /\ \E inputs \in InputLists, outputs \in OutputLists : SplitStep(inputs, outputs)

\* The caller issues the swap request that has just been accepted once more.
RepeatSplitRequest ==
    /\ op = "swap"
    /\ res.kind = "ok"
    /\ first_res = NoResult
    /\ first_res' = res
    /\ SplitStep(req.inputs, req.outputs)

\* -------------------------------------------------- process_mint_request
ProcessMintRequest ==
    /\ op = "idle"
    /\ \E quote \in QuoteIds, outputs \in OutputLists :
        /\ Called("mint", Request(quote, << >>, outputs, TRUE, 0), BlindSignAll(outputs), << >>)
        /\ UNCHANGED <<spent_secrets, first_res>>

\* ---------------------------------------------------- verify_melt_request
\* Mutant: verify_melt_request comparing the amounts after its other checks.
VerifyMeltOutcomeFundsLast(quote, inputs) ==
    IF quote \notin DOMAIN quotes THEN Panic("unwrap")
    ELSE IF Len(inputs) # Cardinality(SecretsOf(inputs)) THEN Err("DuplicateProofs")
    ELSE IF VerifyProofs(inputs).kind # "ok" THEN VerifyProofs(inputs)
    ELSE IF SumAmounts(inputs) < quotes[quote].amount + quotes[quote].fee_reserve
    THEN Err("Amount")
    ELSE Ok(<< >>, FALSE)

VerifyMeltOutcome(quote, inputs) ==
    IF quote \notin DOMAIN quotes THEN Panic("unwrap")
    ELSE IF SumAmounts(inputs) < quotes[quote].amount + quotes[quote].fee_reserve
    THEN Err("Amount")
    ELSE IF Len(inputs) # Cardinality(SecretsOf(inputs)) THEN Err("DuplicateProofs")
    ELSE VerifyProofs(inputs)

\* Mutant: verify_melt_request marking the inputs it accepted as spent.
VerifyMeltRequestSpending ==
    /\ op = "idle"
    /\ \E quote \in QuoteIds, inputs \in InputLists :
        /\ Called("verify_melt", Request(quote, inputs, << >>, FALSE, 0),
                  VerifyMeltOutcome(quote, inputs), << >>)
        /\ spent_secrets' = IF VerifyMeltOutcome(quote, inputs).kind = "ok"
                            THEN spent_secrets \cup SecretsOf(inputs)
                            ELSE spent_secrets
        /\ UNCHANGED first_res

VerifyMeltRequest ==
    /\ op = "idle"
    /\ \E quote \in QuoteIds, inputs \in InputLists :
        /\ Called("verify_melt", Request(quote, inputs, << >>, FALSE, 0),
                  VerifyMeltOutcome(quote, inputs), << >>)
        /\ UNCHANGED <<spent_secrets, first_res>>

\* --------------------------------------------------------- Amount helpers
RECURSIVE SplitFrom(_, _)
SplitFrom(sats, part) ==
    IF sats = 0 THEN << >>
    ELSE IF sats % 2 = 1 THEN <<part>> \o SplitFrom(sats \div 2, 2 * part)
    ELSE SplitFrom(sats \div 2, 2 * part)

\* Amount::split: the powers of two of the set bits, ascending.
AmountSplit(sats) == SplitFrom(sats, 1)

RECURSIVE InsertDesc(_, _)
InsertDesc(a, sorted) ==
    IF sorted = << >> THEN <<a>>
    ELSE IF Head(sorted) < a THEN <<a>> \o sorted
    ELSE <<Head(sorted)>> \o InsertDesc(a, Tail(sorted))

RECURSIVE SortDesc(_)
\* amounts.sort_by(|a, b| b.cmp(a))
SortDesc(amounts) ==
    IF amounts = << >> THEN << >>
    ELSE InsertDesc(Head(amounts), SortDesc(Tail(amounts)))

\* Amount - Amount on unsigned integers: below zero the build either panics
\* (overflow checks) or wraps around the integer width.
AmountSub(a, b) ==
    IF b <= a THEN {[panic |-> FALSE, value |-> a - b]}
    ELSE {[panic |-> TRUE, value |-> 0],
          [panic |-> FALSE, value |-> a - b + 2 ^ AmountBits]}

RECURSIVE SumOf(_)
SumOf(amounts) == IF amounts = << >> THEN 0 ELSE Head(amounts) + SumOf(Tail(amounts))

SignatureAmounts(signatures) == [n \in 1 .. Len(signatures) |-> signatures[n].amount]

\* --------------------------------------------------- process_melt_request
\* Mutant: the outputs are signed for the amounts they came with.
MeltChangeKeepingAmounts(outputs, change_target) ==
    LET split == AmountSplit(change_target)
        amounts == IF Len(outputs) < Len(split) THEN SortDesc(split) ELSE split
        count == IF Len(outputs) < Len(amounts) THEN Len(outputs) ELSE Len(amounts)
        paired == [n \in 1 .. count |-> outputs[n]]
        signed == BlindSignAll(paired)
    IN IF signed.kind # "ok" THEN signed ELSE Ok(signed.signatures, TRUE)

\* The change part of process_melt_request for a change target already computed.
MeltChange(outputs, change_target) ==
    LET split == AmountSplit(change_target)
        amounts == IF Len(outputs) < Len(split) THEN SortDesc(split) ELSE split
        count == IF Len(outputs) < Len(amounts) THEN Len(outputs) ELSE Len(amounts)
        paired == [n \in 1 .. count |-> [outputs[n] EXCEPT !.amount = amounts[n]]]
        signed == BlindSignAll(paired)
    IN IF signed.kind # "ok" THEN signed ELSE Ok(signed.signatures, TRUE)

\* The outcomes of process_melt_request once verify_melt_request has passed.
MeltOutcomes(inputs, outputs, has_outputs, total_spent) ==
    {IF target.panic THEN Panic("overflow")
     ELSE IF has_outputs THEN MeltChange(outputs, target.value)
     ELSE Ok(<< >>, FALSE) :
        target \in AmountSub(SumAmounts(inputs), total_spent)}

\* The vector whose elements process_melt_request inserts into spent_secrets:
\* Vec::with_capacity(inputs.len()), which holds no element.
MeltSecrets(inputs) == << >>

MeltStep(quote, inputs, outputs, has_outputs, total_spent, verified, result) ==
    /\ Called("melt", Request(quote, inputs, outputs, has_outputs, total_spent), result, inputs)
    /\ spent_secrets' =
          IF verified
          THEN spent_secrets \cup {MeltSecrets(inputs)[n] : n \in 1 .. Len(MeltSecrets(inputs))}
          ELSE spent_secrets
    /\ UNCHANGED first_res

\* A request that fails verification returns before outputs and total_spent
\* are read: one such request stands for all with the same quote and inputs.
ProcessMeltRequest ==
    /\ op = "idle"
    /\ \E quote \in QuoteIds, inputs \in InputLists :
        LET verified == VerifyMeltOutcome(quote, inputs) IN
        IF verified.kind # "ok"
        THEN MeltStep(quote, inputs, << >>, FALSE, 0, FALSE, verified)
        ELSE \E has_outputs \in BOOLEAN, total_spent \in 0 .. MaxTotalSpent :
                \E outputs \in (IF has_outputs THEN OutputLists ELSE {<< >>}) :
                    \E result \in MeltOutcomes(inputs, outputs, has_outputs, total_spent) :
                        MeltStep(quote, inputs, outputs, has_outputs, total_spent, TRUE, result)

\* -------------------------------------------------------- check_spendable
\* Mutant: check_spendable reporting spent for spendable.
CheckSpendableOutcomeNotNegated(proofs) ==
    CheckSpendableResponse(
        [n \in 1 .. Len(proofs) |-> proofs[n].secret \in spent_secrets],
        [n \in 1 .. Len(proofs) |-> proofs[n].secret \in pending_secrets])

CheckSpendableOutcome(proofs) ==
    CheckSpendableResponse(
        [n \in 1 .. Len(proofs) |-> proofs[n].secret \notin spent_secrets],
        [n \in 1 .. Len(proofs) |-> proofs[n].secret \in pending_secrets])

CheckSpendable ==
    /\ op = "idle"
    /\ \E proofs \in InputLists :
        /\ Called("check_spendable", Request(NoQuote, proofs, << >>, FALSE, 0),
                  CheckSpendableOutcome(proofs), << >>)
        /\ UNCHANGED <<spent_secrets, first_res>>

\* ------------------------------------------------ keysets, keyset_pubkeys
\* Mint::keysets: the (id, unit) of every entry of keysets_info.
KeysetResponse ==
    {[id |-> keysets_info[i].id, unit |-> keysets_info[i].unit] : i \in DOMAIN keysets_info}

\* Mint::keyset_pubkeys: the amounts with a public key, or None.
KeysetPubkeys(keyset_id) ==
    IF keyset_id \in DOMAIN keysets
    THEN [some |-> TRUE, keys |-> DOMAIN keysets[keyset_id].keys]
    ELSE [some |-> FALSE, keys |-> {}]

\* The handler has returned (or unwound); the mint waits for the next request.
\* After a constructor that panicked there is no mint to wait.
Respond ==
    /\ op # "idle"
    /\ ~(op = "new" /\ res.kind = "panic")
    /\ op' = "idle"
    /\ req' = NoRequest
    /\ res' = NoResult
    /\ first_res' = NoResult
    /\ before' = ledger
    /\ UNCHANGED <<keysets, keysets_info, spent_secrets, pending_secrets, quotes,
                   track, times_spent>>

\* ------------------------------------------------------------------- spec
Constructed(infos, spent) ==
    \E m \in NewMints(infos, spent, InitQuotes) :
        /\ ~m.panic
        /\ keysets = m.keysets
        /\ keysets_info = m.keysets_info
        /\ spent_secrets = m.spent_secrets
        /\ pending_secrets = m.pending_secrets
        /\ quotes = m.quotes
        /\ op = "idle"
        /\ req = NoRequest
        /\ res = NoResult
        /\ first_res = NoResult
        /\ before = <<m.spent_secrets, m.pending_secrets, m.quotes>>
        /\ times_spent = [s \in Secrets |-> 0]

Init ==
    /\ track = FALSE
    /\ \E infos \in InitKeysetInfos, spent \in InitSpent : Constructed(infos, spent)

Next ==
    \/ ProcessMintRequest
    \/ ProcessSplitRequest
    \/ RepeatSplitRequest
    \/ VerifyMeltRequest
    \/ ProcessMeltRequest
    \/ CheckSpendable
    \/ Respond

Spec == Init /\ [][Next]_vars

\* The same mint with the history of successful spends kept.
InitHistory ==
    /\ track = TRUE
    /\ \E infos \in InitKeysetInfos, spent \in InitSpent : Constructed(infos, spent)

SpecHistory == InitHistory /\ [][Next]_vars

\* A mint constructed with an empty spent set that serves swap requests only.
InitSwaps ==
    /\ track = TRUE
    /\ \E infos \in InitKeysetInfos : Constructed(infos, {})

NextSwaps ==
    \/ ProcessSplitRequest
    \/ RepeatSplitRequest
    \/ Respond

SpecSwaps == InitSwaps /\ [][NextSwaps]_vars

\* Mint::new called on any set of infos; what it built then serves requests.
InitNew ==
    /\ track = FALSE
    /\ \E infos \in SUBSET InfoUniverse, spent \in InitSpent :
        \E m \in NewMints(infos, spent, InitQuotes) :
            /\ keysets = m.keysets
            /\ keysets_info = m.keysets_info
            /\ spent_secrets = m.spent_secrets
            /\ pending_secrets = m.pending_secrets
            /\ quotes = m.quotes
            /\ op = "new"
            /\ req = NewRequest(infos)
            /\ res = IF m.panic THEN Panic("todo") ELSE Ok(<< >>, FALSE)
            /\ first_res = NoResult
            /\ before = <<m.spent_secrets, m.pending_secrets, m.quotes>>
            /\ times_spent = [s \in Secrets |-> 0]

SpecNew == InitNew /\ [][Next]_vars

\* ----------------------------------------------------------------- claims
Handlers == {"mint", "swap", "verify_melt", "melt"}
SpendingHandlers == {"swap", "verify_melt", "melt"}
InputSecrets == SecretsOf(req.inputs)
InputTotal == SumAmounts(req.inputs)
OutputTotal == SumAmounts(req.outputs)
SignedTotal == SumOf(SignatureAmounts(res.signatures))
Accepted == res.kind = "ok"

\* C1: a secret in spent_secrets when a handler is called is still there when
\* it returns, and a swap, melt verification or melt whose inputs carry a
\* secret that was spent when it was called is not accepted.
C1_SpentSecretStaysRejected ==
    /\ before[1] \subseteq spent_secrets
    /\ (op \in SpendingHandlers /\ InputSecrets \cap before[1] # {}) => ~Accepted

\* C1 witness: a melt is refused for s2, which an earlier swap had spent.
C1_Witness ==
    /\ op = "melt"
    /\ "s2" \in InputSecrets \cap before[1]
    /\ res = Err("TokenSpent")

\* C2: no secret is an input of two successful swap or melt requests.
C2_NoSecretSpentTwice == \A s \in Secrets : times_spent[s] <= 1

\* C3: after a successful process_melt_request every input secret is in
\* spent_secrets.
C3_MeltSpendsInputs == (op = "melt" /\ Accepted) => InputSecrets \subseteq spent_secrets

\* C4: a swap in which blind-signing an output fails is aborted with
\* spent_secrets as it was before the call.
C4_SignFailureSpendsNothing ==
    (op = "swap" /\ BlindSignAll(req.outputs).kind # "ok") =>
        (~Accepted /\ spent_secrets = before[1])

\* C5: a handler that returns an error leaves spent_secrets, pending_secrets
\* and quotes exactly as they were before the call.
C5_ErrorLeavesLedger == (op \in Handlers /\ res.kind = "err") => ledger = before

\* C5 witness: a swap of valid, unspent proofs rejected for its amounts.
C5_Witness ==
    /\ op = "swap"
    /\ res = Err("Amount")
    /\ req.inputs # << >>
    /\ VerifyProofs(req.inputs).kind = "ok"

\* C6: from an empty spent set and over swap requests only, spent_secrets is
\* exactly the set of input secrets of the accepted swaps.
C6_SpentIsAcceptedInputs == spent_secrets = {s \in Secrets : times_spent[s] > 0}

\* C7: an accepted swap has equal input and output totals and returns
\* signatures that sum to the input total; a swap whose totals differ is
\* rejected with Error::Amount.
C7_SwapConservation ==
    op = "swap" =>
        /\ Accepted => (InputTotal = OutputTotal /\ SignedTotal = InputTotal)
        /\ InputTotal # OutputTotal => res = Err("Amount")

\* C7 witness: two proofs of 1 swapped for one signature of 2.
C7_Witness ==
    /\ op = "swap"
    /\ Accepted
    /\ Len(req.inputs) = 2
    /\ SignatureAmounts(res.signatures) = <<2>>

\* A secret that was an input of a swap accepted before the current call.
SwappedEarlier(s) == s \in before[1] /\ times_spent[s] > 0

\* C8 as stated: an accepted swap issued again is rejected with TokenSpent,
\* and so is every new swap holding an input secret of an earlier accepted swap.
C8_RepeatedSwapTokenSpent ==
    op = "swap" =>
        /\ first_res.kind = "ok" => res = Err("TokenSpent")
        /\ (\E s \in InputSecrets : SwappedEarlier(s)) => res = Err("TokenSpent")

\* C8 amended: an accepted swap with at least one input, issued again, is
\* rejected with TokenSpent; a new swap holding an input secret of an earlier
\* accepted swap is rejected, with TokenSpent when its totals are equal, its
\* input secrets are distinct and its first input carries such a secret.
C8_RepeatedNonEmptySwapTokenSpent ==
    op = "swap" =>
        /\ (first_res.kind = "ok" /\ req.inputs # << >>) => res = Err("TokenSpent")
        /\ (\E s \in InputSecrets : SwappedEarlier(s)) =>
              /\ res.kind = "err"
              /\ ( /\ InputTotal = OutputTotal
                   /\ Cardinality(InputSecrets) = Len(req.inputs)
                   /\ SwappedEarlier(req.inputs[1].secret) ) => res = Err("TokenSpent")

\* C8 witness: a swap of two proofs, accepted and then refused when issued again.
C8_Witness ==
    /\ op = "swap"
    /\ first_res.kind = "ok"
    /\ Len(req.inputs) = 2
    /\ res = Err("TokenSpent")

\* The change target a melt that returned Ok computed: proofs total minus
\* total_spent in Amount arithmetic.
ChangeTarget ==
    (CHOOSE target \in AmountSub(InputTotal, req.total_spent) : ~target.panic).value

\* C9: the change signatures of a successful melt sum to at most the change
\* target, and to exactly the change target iff the request supplied at least
\* as many outputs as the change target has set bits.
C9_ChangeAtMostTarget ==
    (op = "melt" /\ Accepted) =>
        /\ SignedTotal <= ChangeTarget
        /\ SignedTotal = ChangeTarget <=> Len(req.outputs) >= Len(AmountSplit(ChangeTarget))

\* C9 witness: change target 3 with one output: 2 is returned, 1 is burnt.
C9_Witness ==
    /\ op = "melt"
    /\ Accepted
    /\ ChangeTarget = 3
    /\ Len(req.outputs) = 1
    /\ SignatureAmounts(res.signatures) = <<2>>

\* C10: melt verification, and melt, of a quote id the mint does not hold
\* return the error UnknownQuote and leave the mint as it was.
C10_UnknownQuoteIsError ==
    (op \in {"verify_melt", "melt"} /\ req.quote \notin DOMAIN quotes) =>
        (res = Err("UnknownQuote") /\ ledger = before)

\* C11: verify_melt_request never mutates the mint: whatever the request and
\* whatever the result (accepted, an error, or the unwind on an unknown
\* quote), spent_secrets, pending_secrets, quotes and both keyset registries
\* are the same after the call as before it.
C11_VerifyMeltIsReadOnly ==
    [][op' = "verify_melt" => (ledger' = ledger /\ registry' = registry)]_vars

\* C11 witness: verify_melt_request has accepted a non-empty list of inputs.
C11_Witness ==
    /\ op = "verify_melt"
    /\ Accepted
    /\ req.inputs # << >>
    /\ InputSecrets \cap spent_secrets = {}

\* The quote of the request is known, with what it asks for.
QuoteKnown == req.quote \in DOMAIN quotes
Required == quotes[req.quote].amount + quotes[req.quote].fee_reserve

\* C12: melt sufficiency: verify_melt_request and process_melt_request on a
\* known quote accept only inputs whose sum is at least quote.amount +
\* quote.fee_reserve, and a smaller sum is rejected with the amount error
\* (Error::Amount in the code) whatever else is wrong with the inputs, since
\* the amounts are compared before uniqueness and validity are looked at.
C12_MeltSufficiency ==
    (op \in {"verify_melt", "melt"} /\ QuoteKnown) =>
        /\ Accepted => InputTotal >= Required
        /\ InputTotal < Required => res = Err("Amount")

\* C12 witness: a melt short of funds whose inputs also repeat a secret is
\* rejected with the amount error.
C12_Witness ==
    /\ op \in {"verify_melt", "melt"}
    /\ QuoteKnown
    /\ InputTotal < Required
    /\ Cardinality(InputSecrets) < Len(req.inputs)
    /\ res = Err("Amount")

\* What is wrong with one input, the checks taken in the order spent,
\* keyset known, amount key, signature; "none" when nothing is.
ProofFault(proof) ==
    IF proof.secret \in before[1] THEN "TokenSpent"
    ELSE IF proof.id \notin DOMAIN keysets THEN "UnknownKeySet"
    ELSE IF proof.amount \notin DOMAIN keysets[proof.id].keys THEN "AmountKey"
    ELSE IF proof.c # ScalarMul(SecretKeyOf(proof.id, proof.amount), HashToCurve(proof.secret))
    THEN "CryptoError"
    ELSE "none"

FaultyInputs == {n \in 1 .. Len(req.inputs) : ProofFault(req.inputs[n]) # "none"}
FirstFaultyInput == CHOOSE n \in FaultyInputs : \A m \in FaultyInputs : n <= m

\* C13: a swap validates in a fixed order and reports the first failure only:
\* unequal input and output sums give the amount error even with duplicate or
\* spent inputs; equal sums with a repeated secret give DuplicateProofs even
\* if an input is spent or invalid; otherwise the inputs are checked in
\* request order, each for spent, keyset known, amount key, signature, and
\* the first fault of the first faulty input is the error.
C13_SwapValidationOrder ==
    op = "swap" =>
        IF InputTotal # OutputTotal THEN res = Err("Amount")
        ELSE IF Cardinality(InputSecrets) < Len(req.inputs) THEN res = Err("DuplicateProofs")
        ELSE IF FaultyInputs # {} THEN res = Err(ProofFault(req.inputs[FirstFaultyInput]))
        ELSE res.kind # "err"

\* C13 witness: a balanced swap of two distinct secrets whose second input is
\* both spent and forged, after a valid first one, is rejected as TokenSpent.
C13_Witness ==
    /\ op = "swap"
    /\ InputTotal = OutputTotal
    /\ Len(req.inputs) = 2
    /\ Cardinality(InputSecrets) = 2
    /\ ProofFault(req.inputs[1]) = "none"
    /\ req.inputs[2].secret \in before[1]
    /\ req.inputs[2].c = ForgedC
    /\ res = Err("TokenSpent")

\* What the signing policy holds against one blinded message: keyset not
\* registered, then keyset inactive, then no key for the amount; "none" when
\* the message may be signed.
PolicyFault(blinded_message) ==
    IF \/ blinded_message.keyset_id \notin DOMAIN keysets
       \/ blinded_message.keyset_id \notin DOMAIN keysets_info
    THEN "UnknownKeySet"
    ELSE IF ~keysets_info[blinded_message.keyset_id].active THEN "InactiveKeyset"
    ELSE IF blinded_message.amount \notin DOMAIN keysets[blinded_message.keyset_id].keys
    THEN "AmountKey"
    ELSE "none"

\* The amounts a melt writes over its change outputs, and the messages it
\* then hands to blind_sign.
ChangeAmounts ==
    IF Len(req.outputs) < Len(AmountSplit(ChangeTarget))
    THEN SortDesc(AmountSplit(ChangeTarget))
    ELSE AmountSplit(ChangeTarget)
ChangeCount ==
    IF Len(req.outputs) < Len(ChangeAmounts) THEN Len(req.outputs) ELSE Len(ChangeAmounts)
ChangeMessages ==
    [n \in 1 .. ChangeCount |-> [req.outputs[n] EXCEPT !.amount = ChangeAmounts[n]]]

\* The handler got as far as signing, and the messages it had to sign.
SigningRan ==
    \/ op = "mint"
    \/ op = "swap" /\ res.kind # "err"
    \/ op = "melt" /\ req.has_outputs /\ res # Panic("overflow")
Messages == IF op = "melt" THEN ChangeMessages ELSE req.outputs
FaultyMessages == {n \in 1 .. Len(Messages) : PolicyFault(Messages[n]) # "none"}
FirstFaultyMessage == CHOOSE n \in FaultyMessages : \A m \in FaultyMessages : n <= m

\* Signature n answers message n: same amount, same keyset id.
Answers(signatures, messages) ==
    /\ Len(signatures) = Len(messages)
    /\ \A n \in 1 .. Len(messages) :
        /\ signatures[n].amount = messages[n].amount
        /\ signatures[n].id = messages[n].keyset_id

\* C14: signing policy: no handler (mint, swap, melt change) returns a
\* signature unless every message it had to sign names a registered, active
\* keyset that has a key for the message's amount; a message failing this
\* makes blind_sign report UnknownKeySet before InactiveKeyset before
\* AmountKey, which mint and melt return and on which swap unwinds; and the
\* signatures of a success carry the amounts and keyset ids of the messages.
C14_SigningPolicy ==
    /\ res.signatures # << >> => SigningRan
    /\ SigningRan =>
        IF FaultyMessages = {}
        THEN Accepted /\ Answers(res.signatures, Messages)
        ELSE /\ res.signatures = << >>
             /\ IF op = "swap" THEN res.kind = "panic"
                ELSE res = Err(PolicyFault(Messages[FirstFaultyMessage]))

\* C14 witness: a melt whose change output names the inactive keyset, with
\* an amount that keyset has no key for, is refused as InactiveKeyset.
C14_Witness ==
    /\ op = "melt"
    /\ req.has_outputs
    /\ FaultyMessages # {}
    /\ PolicyFault(Messages[FirstFaultyMessage]) = "InactiveKeyset"
    /\ Messages[FirstFaultyMessage].amount
           \notin DOMAIN keysets[Messages[FirstFaultyMessage].keyset_id].keys
    /\ res = Err("InactiveKeyset")

\* The outputs of the request the signing policy refuses.
FaultyOutputs == {n \in 1 .. Len(req.outputs) : PolicyFault(req.outputs[n]) # "none"}

\* C15: process_mint_request is all-or-nothing and order-preserving: if any
\* output cannot be signed the request is rejected with the error of the
\* first such output and returns no signature; otherwise it returns one
\* signature per output, in the order of the outputs, with their amounts and
\* keyset ids; either way spent_secrets, pending_secrets and quotes are as
\* before the call.
C15_MintAllOrNothing ==
    op = "mint" =>
        /\ ledger = before
        /\ IF FaultyOutputs = {}
           THEN Accepted /\ Answers(res.signatures, req.outputs)
           ELSE /\ res.kind = "err"
                /\ \E n \in FaultyOutputs :
                    /\ \A m \in FaultyOutputs : n <= m
                    /\ res.err = PolicyFault(req.outputs[n])
                /\ res.signatures = << >>

\* C15 witness: a mint request whose first output can be signed and whose
\* second cannot returns the error and no signature.
C15_Witness ==
    /\ op = "mint"
    /\ Len(req.outputs) = 2
    /\ FaultyOutputs = {2}
    /\ res = Err("InactiveKeyset")

\* C16: Mint::new on infos of which two are active for one unit fails with
\* DuplicateActiveUnit, and so in every constructed mint, and in every state
\* the handlers take it to, no unit has two active keysets.
C16_DuplicateActiveUnitRefused ==
    /\ (op = "new" /\ DuplicateActiveUnit(req.keysets_info)) =>
           res = Err("DuplicateActiveUnit")
    /\ \A i, j \in DOMAIN keysets_info :
           (/\ keysets_info[i].active
            /\ keysets_info[j].active
            /\ keysets_info[i].unit = keysets_info[j].unit) => i = j

\* C17: check_spendable never fails and returns two lists as long as the
\* proofs: spendable[n] is true exactly when the secret of proof n is not in
\* spent_secrets, pending[n] exactly when it is in pending_secrets; and it
\* leaves spent_secrets, pending_secrets and quotes as they were.
C17_CheckSpendableAnswers ==
    op = "check_spendable" =>
        /\ Accepted
        /\ Len(res.spendable) = Len(req.inputs)
        /\ Len(res.pending) = Len(req.inputs)
        /\ \A n \in 1 .. Len(req.inputs) :
            /\ res.spendable[n] <=> req.inputs[n].secret \notin before[1]
            /\ res.pending[n] <=> req.inputs[n].secret \in before[2]
        /\ ledger = before

\* C17 witness: of two proofs asked about, the first is spent and the second
\* is not.
C17_Witness ==
    /\ op = "check_spendable"
    /\ Len(req.inputs) = 2
    /\ req.inputs[1].secret \in spent_secrets
    /\ req.inputs[2].secret \notin spent_secrets
    /\ res.spendable = <<FALSE, TRUE>>
    /\ res.pending = <<FALSE, FALSE>>

\* C18: melt change is assigned largest first: with n below both the number
\* of outputs and the number of set bits of the change target, change
\* signature n is for output n and carries the n-th largest power of two of
\* the change target; outputs beyond that are discarded and denominations
\* beyond that are burnt.
C18_ChangeLargestFirst ==
    (op = "melt" /\ Accepted /\ req.has_outputs) =>
        /\ Len(res.signatures) = ChangeCount
        /\ \A n \in 1 .. ChangeCount :
            /\ res.signatures[n].id = req.outputs[n].keyset_id
            /\ res.signatures[n].amount = SortDesc(AmountSplit(ChangeTarget))[n]

\* C19: input uniqueness: a swap, melt verification or melt whose input list
\* holds two proofs with the same secret is never accepted, even when both
\* copies are valid and unspent.
C19_DuplicateInputsRefused ==
    (op \in SpendingHandlers /\ Cardinality(InputSecrets) < Len(req.inputs)) => ~Accepted

\* C19 witness: a balanced swap of two valid copies of one unspent secret is
\* rejected as DuplicateProofs.
C19_Witness ==
    /\ op = "swap"
    /\ Len(req.inputs) = 2
    /\ Cardinality(InputSecrets) = 1
    /\ FaultyInputs = {}
    /\ InputTotal = OutputTotal
    /\ res = Err("DuplicateProofs")

\* C20: registry consistency: in every constructed mint, whatever the infos
\* it was constructed from, keysets and keysets_info have the same ids; so a
\* mint request whose messages all name keysets present in keysets is never
\* rejected as UnknownKeySet, and every id keysets() lists has public keys
\* from keyset_pubkeys.
C20_RegistriesAgree ==
    /\ DOMAIN keysets = DOMAIN keysets_info
    /\ (/\ op = "mint"
        /\ \A n \in 1 .. Len(req.outputs) : req.outputs[n].keyset_id \in DOMAIN keysets)
           => res # Err("UnknownKeySet")
    /\ \A k \in KeysetResponse : KeysetPubkeys(k.id).some

====
